---------------------------- MODULE Spec2Model ----------------------------
(***************************************************************************)
(* A model of the zerver server core (src/server.go):                      *)
(*   - the connection lifecycle controller: connStateHook, the state flag, *)
(*     the activeConns WaitGroup and Destroy;                              *)
(*   - request dispatch: ServeHTTP / serveHTTP, route resolution, the      *)
(*     filter chain and the pooled request environment;                    *)
(*   - component initialisation as exercised by TestCycleDependenced.      *)
(* Three specifications share the variables: Spec (lifecycle),             *)
(* SpecDispatch (dispatch) and SpecComp (components).                      *)
(***************************************************************************)
EXTENDS Integers, Sequences, FiniteSets, TLC

\* ------------------------------------------------------------------ bounds
\* connections the listener accepts in one run
MaxConns == 1
\* calls of Destroy in one run (sequential or concurrent)
MaxDestroy == 2
\* requests dispatched in one run, concurrently
MaxReq == 2
\* longest request path, in characters
MaxPathLen == 3
\* registered components
MaxComps == 2
\* longest request path of the normalisation runs, in characters
MaxUrlLen == 5
\* init funcs registered with AddInitFuncs
MaxInitFuncs == 4

\* ------------------------------------------------------- program constants
NORMAL == 0
DESTROYED == 1

Conns == 1..MaxConns
Destroyers == 1..MaxDestroy
\* timeout <= 0 (negative, zero) and timeout > 0
Timeouts == {-1, 0, 1}
TeardownOrder == <<"RootFilters", "Router", "ComponentManager">>

VARIABLES
  \* --- Server fields (src/server.go:220-222)
  state,            \* s.state: NORMAL or DESTROYED
  activeConns,      \* s.activeConns: the WaitGroup counter
  listenerCloses,   \* number of s.listener.Close() calls performed
  \* --- the transport's connections and the hook's position on each
  connState,        \* http.ConnState last reported for the connection
  hookPC,           \* the hook call in progress on the connection
  reqKind,          \* request in service on it: "http", "ws" or "none"
  closedByHook,     \* conn.Close() was called by connStateHook
  counted,          \* Add(1)s minus Done()s performed for the connection
  \* --- the Destroy calls
  dpc,              \* position of each Destroy call
  timeout,          \* its argument (read only after a successful swap)
  won,              \* its CompareAndSwap succeeded
  isTimeout,        \* its local isTimeout
  result,           \* its return value: "none", "true", "false"
  waiterPC,         \* the goroutine of lines 555-558
  cClosed,          \* channel c is closed
  timerStarted,     \* time.NewTicker(timeout) was created
  timerFired,       \* the ticker has delivered a tick
  teardown,         \* the subsystems destroyed so far, in order
  \* --- observations kept for the properties
  countAtShutdown,     \* activeConns when the state flipped
  hijackedAtShutdown,  \* connections already hijacked when the state flipped
  selectSaw,           \* what was ready when the select resolved
  timerSaw,            \* the drain's progress when the ticker fired
  \* --- the requests being dispatched (one goroutine each)
  rpc,              \* position of the request in ServeHTTP / serveHTTP
  rver,             \* the server serving it: "zerver", "rest" (lines 1-141)
                    \* or "ws" (zerver's serveWebSocket)
  rroute,           \* the route matched for its path, or NoRoute
  rmethod,          \* its method
  rchain,           \* the chain composed for it (names of its links)
  rpos,             \* the next link of the chain to be entered
  ran,              \* the links entered so far, in order
  rexit,            \* how the chain ended
  reported,         \* statuses reported by the dispatcher itself
  rheld,            \* pooled objects checked out and not yet returned
  \* --- the component manager under TestCycleDependenced
  deps,             \* the name each registered component's Init resolves
  compState,        \* lifecycle state of each registered component
  initCount,        \* times each component's init routine was entered
  compStack,        \* the init routines in progress, innermost last
  compErrors,       \* the errors env.Component has returned
  loopTodo,         \* components the test's loop has still to visit
  \* --- Start (config, listen, Serve)
  spc,              \* position of Start: "config", "listen", "serving",
                    \* "aborted" (panicOnInit panicked), "failed" (listen error)
  stagesRun,        \* the stages entered so far, in order
  initFuncsLeft,    \* registered init funcs not yet executed
  startErr,         \* the stage whose error ended the startup, or "none"
  listening,        \* s.listener is open and srv.Serve is accepting from it
  \* --- one request's path through ServeHTTP
  praw,             \* request.URL.Path as the transport delivered it
  ppath,            \* request.URL.Path now
  pws,              \* websocket.IsWebSocketRequest(request)
  ppc,              \* "received", "normalized", then "http" or "ws"
  pmatch            \* the path the matcher was called with, <<>> before

lifeVars == <<state, activeConns, listenerCloses, connState, hookPC, reqKind,
              closedByHook, counted, dpc, timeout, won, isTimeout, result,
              waiterPC, cClosed, timerStarted, timerFired, teardown,
              countAtShutdown, hijackedAtShutdown, selectSaw, timerSaw>>

dispatchVars == <<rpc, rver, rroute, rmethod, rchain, rpos, ran, rexit,
                  reported, rheld>>

compVars == <<deps, compState, initCount, compStack, compErrors, loopTodo>>

startVars == <<spc, stagesRun, initFuncsLeft, startErr, listening>>

pathVars == <<praw, ppath, pws, ppc, pmatch>>

vars == <<lifeVars, dispatchVars, compVars, startVars, pathVars>>

connVars == <<connState, hookPC, reqKind, closedByHook, counted>>
destroyVars == <<dpc, timeout, won, isTimeout, result, waiterPC, cClosed,
                 timerStarted, timerFired, teardown, listenerCloses,
                 countAtShutdown, hijackedAtShutdown, selectSaw, timerSaw>>
outsideConn == <<destroyVars, dispatchVars, compVars, startVars, pathVars>>
outsideDestroy == <<connVars, dispatchVars, compVars, startVars, pathVars>>
outsideDispatch == <<lifeVars, compVars, startVars, pathVars>>
outsideComp == <<lifeVars, dispatchVars, startVars, pathVars>>
outsideStart == <<lifeVars, dispatchVars, compVars, pathVars>>
outsidePath == <<lifeVars, dispatchVars, compVars, startVars>>

\* The server after Start has opened the listener (src/server.go:444-453).
InitLife ==
  /\ state = NORMAL
  /\ activeConns = 0
  /\ listenerCloses = 0
  /\ connState = [c \in Conns |-> "none"]
  /\ hookPC = [c \in Conns |-> "none"]
  /\ reqKind = [c \in Conns |-> "none"]
  /\ closedByHook = [c \in Conns |-> FALSE]
  /\ counted = [c \in Conns |-> 0]
  /\ dpc = [d \in Destroyers |-> "idle"]
  /\ timeout = [d \in Destroyers |-> 0]
  /\ won = [d \in Destroyers |-> FALSE]
  /\ isTimeout = [d \in Destroyers |-> FALSE]
  /\ result = [d \in Destroyers |-> "none"]
  /\ waiterPC = "none"
  /\ cClosed = FALSE
  /\ timerStarted = FALSE
  /\ timerFired = FALSE
  /\ teardown = <<>>
  /\ countAtShutdown = 0
  /\ hijackedAtShutdown = {}
  /\ selectSaw = "none"
  /\ timerSaw = "none"

\* --------------------------------------------------------- the transport
\* net/http accepts a connection while the listener is open; StateNew has no
\* case in the hook.  Connections are numbered in the order of acceptance.
Accept(c) ==
  /\ listening
  /\ listenerCloses = 0
  /\ connState[c] = "none"
  /\ IF c = 1 THEN TRUE ELSE connState[c - 1] # "none"
  /\ connState' = [connState EXCEPT ![c] = "new"]
  /\ UNCHANGED <<state, activeConns, hookPC, reqKind, closedByHook, counted>>
  /\ UNCHANGED outsideConn

\* connStateHook, case http.StateActive: the atomic load of s.state and the
\* branch on it.  Add(1) follows as a step of its own (HookAdd); the
\* conn.Close() of the else branch touches the connection alone.
HookActive(c, k) ==
  /\ connState[c] \in {"new", "idle"}
  /\ hookPC[c] = "none"
  /\ connState' = [connState EXCEPT ![c] = "active"]
  /\ reqKind' = [reqKind EXCEPT ![c] = k]
  /\ IF state = NORMAL
       THEN /\ hookPC' = [hookPC EXCEPT ![c] = "add"]
            /\ UNCHANGED closedByHook
       ELSE /\ closedByHook' = [closedByHook EXCEPT ![c] = TRUE]
            /\ UNCHANGED hookPC
  /\ UNCHANGED <<state, activeConns, counted>>
  /\ UNCHANGED outsideConn

\* s.activeConns.Add(1) of the StateActive case.
HookAdd(c) ==
  /\ hookPC[c] = "add"
  /\ activeConns' = activeConns + 1
  /\ counted' = [counted EXCEPT ![c] = @ + 1]
  /\ hookPC' = [hookPC EXCEPT ![c] = "none"]
  /\ UNCHANGED <<state, connState, reqKind, closedByHook>>
  /\ UNCHANGED outsideConn

\* HookIdle closing the connection whatever the state.
HookIdleAlwaysClose(c) ==
  /\ connState[c] = "active"
  /\ hookPC[c] = "none"
  /\ connState' = [connState EXCEPT ![c] = "idle"]
  /\ reqKind' = [reqKind EXCEPT ![c] = "none"]
  /\ closedByHook' = [closedByHook EXCEPT ![c] = TRUE]
  /\ hookPC' = [hookPC EXCEPT ![c] = "done"]
  /\ UNCHANGED <<state, activeConns, counted>>
  /\ UNCHANGED outsideConn

\* connStateHook, case http.StateIdle: the atomic load of s.state and the
\* conn.Close() it guards.  Done() follows as a step of its own (HookDone).
HookIdle(c) ==
  /\ connState[c] = "active"
  /\ hookPC[c] = "none"
  /\ connState' = [connState EXCEPT ![c] = "idle"]
  /\ reqKind' = [reqKind EXCEPT ![c] = "none"]
  /\ closedByHook' = [closedByHook EXCEPT ![c] = @ \/ state = DESTROYED]
  /\ hookPC' = [hookPC EXCEPT ![c] = "done"]
  /\ UNCHANGED <<state, activeConns, counted>>
  /\ UNCHANGED outsideConn

\* sync.WaitGroup.Done(): the counter is decremented; a negative counter
\* panics ("sync: negative WaitGroup counter") with the decrement applied.
\* The panic unwinds the connection's goroutine, where net/http recovers it
\* and closes a connection that is not hijacked.
HookDone(c) ==
  /\ hookPC[c] = "done"
  /\ activeConns' = activeConns - 1
  /\ counted' = [counted EXCEPT ![c] = @ - 1]
  /\ hookPC' = [hookPC EXCEPT ![c] = "none"]
  /\ connState' = [connState EXCEPT ![c] =
                     IF activeConns - 1 < 0 THEN "closed" ELSE @]
  /\ UNCHANGED <<state, reqKind, closedByHook>>
  /\ UNCHANGED outsideConn

\* HookHijacked without the Done().
HookHijackedNoDone(c) ==
  /\ connState[c] = "active"
  /\ hookPC[c] = "none"
  /\ connState' = [connState EXCEPT ![c] = "hijacked"]
  /\ UNCHANGED <<state, activeConns, counted, hookPC, reqKind, closedByHook>>
  /\ UNCHANGED outsideConn

\* connStateHook, case http.StateHijacked: Done() alone.  The request in
\* service took the connection over (a websocket upgrade, or a handler's
\* Hijack); the state is final.
HookHijacked(c) ==
  /\ connState[c] = "active"
  /\ hookPC[c] = "none"
  /\ connState' = [connState EXCEPT ![c] = "hijacked"]
  /\ activeConns' = activeConns - 1
  /\ counted' = [counted EXCEPT ![c] = @ - 1]
  /\ UNCHANGED <<state, hookPC, reqKind, closedByHook>>
  /\ UNCHANGED outsideConn

\* http.StateClosed has no case in the hook: nothing is uncounted.
HookClosed(c) ==
  /\ connState[c] \in {"new", "active", "idle"}
  /\ hookPC[c] = "none"
  /\ connState' = [connState EXCEPT ![c] = "closed"]
  /\ reqKind' = [reqKind EXCEPT ![c] = "none"]
  /\ UNCHANGED <<state, activeConns, hookPC, closedByHook, counted>>
  /\ UNCHANGED outsideConn

\* ---------------------------------------------------------------- Destroy
Hijacked == {c \in Conns : connState[c] = "hijacked"}

\* DestroyCAS with a plain store in place of the compare-and-swap.
DestroyCASBlind(d, t) ==
  /\ dpc[d] = "idle"
  /\ IF d = 1 THEN TRUE ELSE dpc[d - 1] # "idle"
  /\ state' = DESTROYED
  /\ timeout' = [timeout EXCEPT ![d] = t]
  /\ won' = [won EXCEPT ![d] = TRUE]
  /\ dpc' = [dpc EXCEPT ![d] = "close"]
  /\ countAtShutdown' = activeConns
  /\ hijackedAtShutdown' = Hijacked
  /\ UNCHANGED <<activeConns, listenerCloses, isTimeout, result, waiterPC,
                 cClosed, timerStarted, timerFired, teardown, selectSaw,
                 timerSaw>>
  /\ UNCHANGED outsideDestroy

\* Destroy, lines 546-549: the compare-and-swap; a call that loses returns
\* false at once.
DestroyCAS(d, t) ==
  /\ dpc[d] = "idle"
  /\ IF d = 1 THEN TRUE ELSE dpc[d - 1] # "idle"
  /\ IF state = NORMAL
       THEN /\ state' = DESTROYED
            /\ timeout' = [timeout EXCEPT ![d] = t]
            /\ won' = [won EXCEPT ![d] = TRUE]
            /\ dpc' = [dpc EXCEPT ![d] = "close"]
            /\ countAtShutdown' = activeConns
            /\ hijackedAtShutdown' = Hijacked
            /\ UNCHANGED result
       ELSE /\ result' = [result EXCEPT ![d] = "false"]
            /\ dpc' = [dpc EXCEPT ![d] = "done"]
            /\ UNCHANGED <<state, timeout, won, countAtShutdown,
                           hijackedAtShutdown>>
  /\ UNCHANGED <<activeConns, listenerCloses, isTimeout, waiterPC, cClosed,
                 timerStarted, timerFired, teardown, selectSaw, timerSaw>>
  /\ UNCHANGED outsideDestroy

\* Destroy, lines 551-561: isTimeout starts true, the listener is closed, and
\* for timeout > 0 the waiting goroutine and the ticker are started.
DestroyCloseListener(d) ==
  /\ dpc[d] = "close"
  /\ isTimeout' = [isTimeout EXCEPT ![d] = TRUE]
  /\ listenerCloses' = listenerCloses + 1
  /\ IF timeout[d] > 0
       THEN /\ waiterPC' = "wait"
            /\ timerStarted' = TRUE
            /\ dpc' = [dpc EXCEPT ![d] = "select"]
       ELSE /\ dpc' = [dpc EXCEPT ![d] = "wait"]
            /\ UNCHANGED <<waiterPC, timerStarted>>
  /\ UNCHANGED <<state, activeConns, timeout, won, result, cClosed,
                 timerFired, teardown, countAtShutdown, hijackedAtShutdown,
                 selectSaw, timerSaw>>
  /\ UNCHANGED outsideDestroy

\* line 556: s.activeConns.Wait() in the goroutine returns once the counter
\* is zero.
WaiterWait ==
  /\ waiterPC = "wait"
  /\ activeConns = 0
  /\ waiterPC' = "close"
  /\ UNCHANGED <<state, activeConns, listenerCloses, dpc, timeout, won,
                 isTimeout, result, cClosed, timerStarted, timerFired,
                 teardown, countAtShutdown, hijackedAtShutdown, selectSaw,
                 timerSaw>>
  /\ UNCHANGED outsideDestroy

\* line 557: close(c).
WaiterClose ==
  /\ waiterPC = "close"
  /\ waiterPC' = "exit"
  /\ cClosed' = TRUE
  /\ UNCHANGED <<state, activeConns, listenerCloses, dpc, timeout, won,
                 isTimeout, result, timerStarted, timerFired, teardown,
                 countAtShutdown, hijackedAtShutdown, selectSaw, timerSaw>>
  /\ UNCHANGED outsideDestroy

\* line 561: the ticker delivers its first tick, timeout after its creation.
\* Only the select receives from the ticker: a tick after the select has
\* resolved is never received and is left out.
TimerFire ==
  /\ timerStarted
  /\ ~timerFired
  /\ \E d \in Destroyers : dpc[d] = "select"
  /\ timerFired' = TRUE
  /\ timerSaw' = IF cClosed THEN "drained"
                 ELSE IF activeConns > 0 THEN "active" ELSE "pending"
  /\ UNCHANGED <<state, activeConns, listenerCloses, dpc, timeout, won,
                 isTimeout, result, waiterPC, cClosed, timerStarted, teardown,
                 countAtShutdown, hijackedAtShutdown, selectSaw>>
  /\ UNCHANGED outsideDestroy

Ready == IF cClosed /\ timerFired THEN "both"
         ELSE IF cClosed THEN "drain"
         ELSE IF timerFired THEN "timer" ELSE "none"

\* DestroySelect without the ticker case: the select waits for c alone.
DestroySelectDrainOnly(d) ==
  /\ dpc[d] = "select"
  /\ cClosed
  /\ isTimeout' = [isTimeout EXCEPT ![d] = FALSE]
  /\ selectSaw' = Ready
  /\ dpc' = [dpc EXCEPT ![d] = "rootfilters"]
  /\ UNCHANGED <<state, activeConns, listenerCloses, timeout, won, result,
                 waiterPC, cClosed, timerStarted, timerFired, teardown,
                 countAtShutdown, hijackedAtShutdown, timerSaw>>
  /\ UNCHANGED outsideDestroy

\* DestroySelect returning false straight from the ticker case, without the
\* teardown.
DestroySelectAbortOnTimeout(d) ==
  /\ dpc[d] = "select"
  /\ \/ /\ cClosed
        /\ isTimeout' = [isTimeout EXCEPT ![d] = FALSE]
        /\ dpc' = [dpc EXCEPT ![d] = "rootfilters"]
        /\ UNCHANGED result
     \/ /\ timerFired
        /\ dpc' = [dpc EXCEPT ![d] = "done"]
        /\ result' = [result EXCEPT ![d] = "false"]
        /\ UNCHANGED isTimeout
  /\ selectSaw' = Ready
  /\ UNCHANGED <<state, activeConns, listenerCloses, timeout, won,
                 waiterPC, cClosed, timerStarted, timerFired, teardown,
                 countAtShutdown, hijackedAtShutdown, timerSaw>>
  /\ UNCHANGED outsideDestroy

\* lines 560-564: the select.  A ready case is taken; when both are ready Go
\* picks one of them at random.
DestroySelect(d) ==
  /\ dpc[d] = "select"
  /\ \/ /\ cClosed
        /\ isTimeout' = [isTimeout EXCEPT ![d] = FALSE]
     \/ /\ timerFired
        /\ UNCHANGED isTimeout
  /\ selectSaw' = Ready
  /\ dpc' = [dpc EXCEPT ![d] = "rootfilters"]
  /\ UNCHANGED <<state, activeConns, listenerCloses, timeout, won, result,
                 waiterPC, cClosed, timerStarted, timerFired, teardown,
                 countAtShutdown, hijackedAtShutdown, timerSaw>>
  /\ UNCHANGED outsideDestroy

\* DestroyWait that does not block on the counter.
DestroyWaitNoBlock(d) ==
  /\ dpc[d] = "wait"
  /\ dpc' = [dpc EXCEPT ![d] = "rootfilters"]
  /\ UNCHANGED <<state, activeConns, listenerCloses, timeout, won, isTimeout,
                 result, waiterPC, cClosed, timerStarted, timerFired,
                 teardown, countAtShutdown, hijackedAtShutdown, selectSaw,
                 timerSaw>>
  /\ UNCHANGED outsideDestroy

\* line 566: s.activeConns.Wait() of the timeout <= 0 branch.
DestroyWait(d) ==
  /\ dpc[d] = "wait"
  /\ activeConns = 0
  /\ dpc' = [dpc EXCEPT ![d] = "rootfilters"]
  /\ UNCHANGED <<state, activeConns, listenerCloses, timeout, won, isTimeout,
                 result, waiterPC, cClosed, timerStarted, timerFired,
                 teardown, countAtShutdown, hijackedAtShutdown, selectSaw,
                 timerSaw>>
  /\ UNCHANGED outsideDestroy

DestroyFrame == <<state, activeConns, listenerCloses, timeout, won, isTimeout,
                  waiterPC, cClosed, timerStarted, timerFired,
                  countAtShutdown, hijackedAtShutdown, selectSaw, timerSaw>>

\* line 570: s.RootFilters.Destroy().
DestroyRootFilters(d) ==
  /\ dpc[d] = "rootfilters"
  /\ teardown' = Append(teardown, "RootFilters")
  /\ dpc' = [dpc EXCEPT ![d] = "router"]
  /\ UNCHANGED result
  /\ UNCHANGED DestroyFrame
  /\ UNCHANGED outsideDestroy

\* line 571: s.Router.Destroy().
DestroyRouter(d) ==
  /\ dpc[d] = "router"
  /\ teardown' = Append(teardown, "Router")
  /\ dpc' = [dpc EXCEPT ![d] = "components"]
  /\ UNCHANGED result
  /\ UNCHANGED DestroyFrame
  /\ UNCHANGED outsideDestroy

\* lines 572-574: s.ComponentManager.Destroy() and return !isTimeout.
DestroyComponents(d) ==
  /\ dpc[d] = "components"
  /\ teardown' = Append(teardown, "ComponentManager")
  /\ result' = [result EXCEPT ![d] = IF isTimeout[d] THEN "false" ELSE "true"]
  /\ dpc' = [dpc EXCEPT ![d] = "done"]
  /\ UNCHANGED DestroyFrame
  /\ UNCHANGED outsideDestroy

\* =============================================== properties of the lifecycle
Returned(d) == dpc[d] = "done"
PastWait(d) == dpc[d] \in {"rootfilters", "router", "components", "done"}

\* C1: a Destroy(timeout <= 0) that performed the transition leaves its wait
\* (and so begins the teardown and returns) only by a step taken while the
\* tracked count is zero; until then nothing is torn down, nothing is
\* returned, and no timer exists that could end the wait.
C1_WaitsForZero ==
  [][\A d \in Destroyers :
       (won[d] /\ timeout[d] <= 0 /\ dpc[d] \in {"close", "wait"}) =>
          /\ teardown = <<>>
          /\ result[d] = "none"
          /\ ~timerStarted'
          /\ waiterPC' = "none"
          /\ PastWait(d)' => (dpc[d] = "wait" /\ activeConns = 0)]_vars

\* C1 witness: a Destroy(timeout <= 0) has returned although connections were
\* tracked when the shutdown began.
C1_Witness ==
  \E d \in Destroyers :
    won[d] /\ timeout[d] <= 0 /\ Returned(d) /\ countAtShutdown > 0

\* C2 (as claimed): Destroy returns false exactly when its wait timed out or
\* the server was already destroyed; a call with timeout <= 0 that performed
\* the transition returns true.
C2_FalseOnlyOnTimeoutOrDestroyed ==
  \A d \in Destroyers :
    Returned(d) =>
      /\ result[d] = "false" <=>
           (~won[d] \/ (timeout[d] > 0 /\ selectSaw # "none" /\ isTimeout[d]))
      /\ (won[d] /\ timeout[d] <= 0) => result[d] = "true"

\* C3 (as claimed): with timeout > 0 the result is decided by the order of
\* the drain and the timer: true when the drain was complete before the
\* ticker fired (or the ticker never fired), false when connections were
\* still tracked as the ticker fired.
C3_DrainBeforeTimerDecides ==
  \A d \in Destroyers :
    (Returned(d) /\ won[d] /\ timeout[d] > 0) =>
      /\ timerSaw \in {"none", "drained"} => result[d] = "true"
      /\ timerSaw = "active" => result[d] = "false"

\* C3 (amended): with timeout > 0 the result is decided by what is ready when
\* the select resolves: only the drain signal gives true, only the tick gives
\* false, both allow either; true is returned only after the drain signal
\* and false only after a tick; and once the ticker has fired the select can
\* resolve whatever the tracked count is.
C3_SelectDecides ==
  \A d \in Destroyers :
    (won[d] /\ timeout[d] > 0) =>
      /\ (dpc[d] = "select" /\ timerFired) => ENABLED DestroySelect(d)
      /\ (dpc[d] = "select" /\ ~timerFired /\ ~cClosed)
            => ~ENABLED DestroySelect(d)
      /\ PastWait(d) =>
           /\ selectSaw # "none"
           /\ selectSaw = "drain" => ~isTimeout[d]
           /\ selectSaw = "timer" => isTimeout[d]
      /\ Returned(d) => (result[d] = "true" <=> ~isTimeout[d])

\* C3 witness: a Destroy(timeout > 0) returned false on the tick while a
\* connection was still tracked.
C3_Witness ==
  \E d \in Destroyers :
    /\ won[d] /\ timeout[d] > 0 /\ Returned(d)
    /\ selectSaw = "timer" /\ result[d] = "false" /\ activeConns > 0

C4Inv ==
  /\ Cardinality({d \in Destroyers : won[d]}) <= 1
  /\ state = DESTROYED <=> \E d \in Destroyers : won[d]
  /\ listenerCloses <= 1
  /\ \A d \in Destroyers :
       ~won[d] => /\ dpc[d] \in {"idle", "done"}
                  /\ Returned(d) => result[d] = "false"

\* C4: the state never leaves DESTROYED; at most one Destroy call wins the
\* swap (one exactly once the state is DESTROYED); a call that loses returns
\* false in the very step of its swap, and that step closes no listener,
\* starts no wait and destroys nothing.
C4_SingleTransition ==
  [][/\ state = DESTROYED => state' = DESTROYED
     /\ C4Inv'
     /\ \A d \in Destroyers :
          (dpc[d] = "idle" /\ dpc'[d] # "idle" /\ ~won'[d]) =>
             /\ state = DESTROYED
             /\ Returned(d)' /\ result'[d] = "false"
             /\ UNCHANGED <<listenerCloses, teardown, waiterPC, timerStarted,
                            activeConns, connVars>>]_vars

\* C4 witness: one call performed the transition and ran to its end, another
\* one lost and returned.
C4_Witness ==
  \E d1, d2 \in Destroyers :
    won[d1] /\ Returned(d1) /\ ~won[d2] /\ Returned(d2)

IsPrefix(s, t) ==
  /\ Len(s) <= Len(t)
  /\ \A i \in 1..Len(s) : s[i] = t[i]

\* C5: root filters, router and component manager are destroyed in this
\* order, each at most once, only after the winner's wait has resolved, and
\* all three by the time the winner returns, whether it returns true or
\* false.
C5_TeardownOnce ==
  /\ IsPrefix(teardown, TeardownOrder)
  /\ \A d \in Destroyers :
       /\ (won[d] /\ ~PastWait(d)) => teardown = <<>>
       /\ (won[d] /\ Returned(d)) => teardown = TeardownOrder
  /\ teardown # <<>> => \E d \in Destroyers : won[d] /\ PastWait(d)

\* C5 witness: the winner timed out, returned false, and the three
\* subsystems are destroyed.
C5_Witness ==
  \E d \in Destroyers :
    /\ won[d] /\ Returned(d) /\ timeout[d] > 0 /\ result[d] = "false"
    /\ teardown = TeardownOrder

C13_NoIncreaseAfterDestroyed ==
  [][state = DESTROYED =>
       /\ activeConns' <= activeConns
       /\ \A c \in Conns : counted'[c] <= counted[c]]_vars

\* a hook event reported for connection c by this step
ActiveEvent(c) == connState[c] \in {"new", "idle"} /\ connState'[c] = "active"
IdleEvent(c) == connState[c] = "active" /\ connState'[c] = "idle"

\* C14: the hook closes a connection exactly when it reports Active or Idle
\* while the state is DESTROYED; while the state is NORMAL no step closes a
\* connection; and every Idle event is followed by the hook's Done(), which
\* takes one off the tracked count whether or not the connection was closed.
C14_ClosesOnlyWhenDestroyed ==
  [][\A c \in Conns :
       /\ (~closedByHook[c] /\ closedByHook'[c]) =>
            (state = DESTROYED /\ (ActiveEvent(c) \/ IdleEvent(c)))
       /\ (state = DESTROYED /\ (ActiveEvent(c) \/ IdleEvent(c))) =>
            closedByHook'[c]
       /\ state = NORMAL => closedByHook'[c] = closedByHook[c]
       /\ closedByHook[c] => closedByHook'[c]
       /\ IdleEvent(c) => (hookPC'[c] = "done" /\ activeConns' = activeConns)
       /\ hookPC[c] = "done" =>
            \/ (hookPC'[c] = "done" /\ counted'[c] = counted[c])
            \/ /\ hookPC'[c] = "none"
               /\ activeConns' = activeConns - 1
               /\ counted'[c] = counted[c] - 1]_vars

\* C14 witness: a connection that was counted when the shutdown began has
\* gone Idle since: the hook closed it and took it off the count.
C14_Witness ==
  \E c \in Conns :
    /\ state = DESTROYED /\ countAtShutdown > 0
    /\ connState[c] = "idle" /\ hookPC[c] = "none"
    /\ closedByHook[c] /\ counted[c] = 0 /\ activeConns = 0

\* C17 (as claimed): the tracked count is never negative: every Done() on
\* Idle or Hijacked is matched by an earlier Add(1) for the same connection.
C17_CountNeverNegative ==
  /\ activeConns >= 0
  /\ \A c \in Conns : counted[c] >= 0

\* every request the transport has accepted is over
AllRequestsEnded ==
  \A c \in Conns : connState[c] \in {"none", "closed", "hijacked"}
                     /\ hookPC[c] = "none"

\* C18 (as claimed): a connection whose request has ended, by whatever
\* transition, is no longer counted; so once every request has ended no
\* Destroy(timeout <= 0) is left waiting on a positive count.
C18_UncountedWhenRequestEnds ==
  /\ \A c \in Conns : connState[c] = "closed" => counted[c] <= 0
  /\ \A d \in Destroyers :
       (dpc[d] = "wait" /\ AllRequestsEnded) => activeConns <= 0

\* a request is in service on the connection: the hook's Active call has
\* returned and the transport has called ServeHTTP
InService(c) == connState[c] = "active" /\ hookPC[c] = "none"

\* C19 (as claimed): when the drain completed, no request is in service on a
\* tracked connection while the subsystems are destroyed or afterwards.
C19_NoRequestDuringTeardown ==
  \A d \in Destroyers :
    (won[d] /\ timeout[d] > 0 /\ PastWait(d) /\ ~isTimeout[d]) =>
      \A c \in Conns : ~(InService(c) /\ counted[c] > 0)


NextLife ==
  \/ \E c \in Conns : Accept(c)
  \/ \E c \in Conns, k \in {"http", "ws"} : HookActive(c, k)
  \/ \E c \in Conns : HookAdd(c)
  \/ \E c \in Conns : HookIdle(c)
  \/ \E c \in Conns : HookDone(c)
  \/ \E c \in Conns : HookHijacked(c)
  \/ \E c \in Conns : HookClosed(c)
  \/ \E d \in Destroyers, t \in Timeouts : DestroyCAS(d, t)
  \/ \E d \in Destroyers : DestroyCloseListener(d)
  \/ WaiterWait
  \/ WaiterClose
  \/ TimerFire
  \/ \E d \in Destroyers : DestroySelect(d)
  \/ \E d \in Destroyers : DestroyWait(d)
  \/ \E d \in Destroyers : DestroyRootFilters(d)
  \/ \E d \in Destroyers : DestroyRouter(d)
  \/ \E d \in Destroyers : DestroyComponents(d)

\* ================================================================ startup
\* config, lines 402-408: the three subsystems initialised in this order
ConfigStages == <<"ComponentManager", "RootFilters", "Router">>
InitFuncCounts == 0..MaxInitFuncs

\* the stages of a startup with n init funcs that meets no error
StagesOf(n) == ConfigStages \o [i \in 1..n |-> "InitFunc"] \o <<"Listen">>

\* Start has been called and nothing has run yet; n init funcs are registered.
StartCalled(n) ==
  /\ spc = "config"
  /\ stagesRun = <<>>
  /\ initFuncsLeft = n
  /\ startErr = "none"
  /\ listening = FALSE

\* Start has run through: the listener is open and Serve accepts from it.
StartServing ==
  /\ spc = "serving"
  /\ stagesRun = StagesOf(0)
  /\ initFuncsLeft = 0
  /\ startErr = "none"
  /\ listening = TRUE

\* panicOnInit that lets the error go.
panicOnInitIgnored(stage, ok) ==
  /\ UNCHANGED spc
  /\ startErr' = IF ok THEN startErr ELSE stage

\* panicOnInit, lines 537-541: an error panics out of config and Start.
panicOnInit(stage, ok) ==
  IF ok THEN UNCHANGED <<spc, startErr>>
        ELSE spc' = "aborted" /\ startErr' = stage

\* config, lines 402-408: the next of ComponentManager.Init, RootFilters.Init
\* and Router.Init, each under panicOnInit.
ConfigStage(ok) ==
  /\ spc = "config"
  /\ Len(stagesRun) < Len(ConfigStages)
  /\ LET stage == ConfigStages[Len(stagesRun) + 1] IN
       /\ stagesRun' = Append(stagesRun, stage)
       /\ panicOnInit(stage, ok)
  /\ UNCHANGED <<initFuncsLeft, listening>>
  /\ UNCHANGED outsideStart

\* config, lines 411-414: the next registered init func, under panicOnInit.
ConfigInitFunc(ok) ==
  /\ spc = "config"
  /\ Len(stagesRun) >= Len(ConfigStages)
  /\ initFuncsLeft > 0
  /\ stagesRun' = Append(stagesRun, "InitFunc")
  /\ initFuncsLeft' = initFuncsLeft - 1
  /\ panicOnInit("InitFunc", ok)
  /\ UNCHANGED listening
  /\ UNCHANGED outsideStart

\* config, lines 416-420, returns to Start (line 442).
ConfigReturn ==
  /\ spc = "config"
  /\ Len(stagesRun) >= Len(ConfigStages)
  /\ initFuncsLeft = 0
  /\ spc' = "listen"
  /\ UNCHANGED <<stagesRun, initFuncsLeft, startErr, listening>>
  /\ UNCHANGED outsideStart

\* Start, lines 444-456: s.listen; without an error the listener is kept
\* and srv.Serve runs on it, with an error Start returns it.
StartListen(ok) ==
  /\ spc = "listen"
  /\ stagesRun' = Append(stagesRun, "Listen")
  /\ IF ok THEN /\ spc' = "serving"
                /\ listening' = TRUE
                /\ UNCHANGED startErr
           ELSE /\ spc' = "failed"
                /\ startErr' = "Listen"
                /\ UNCHANGED listening
  /\ UNCHANGED initFuncsLeft
  /\ UNCHANGED outsideStart

\* the transport serving connections once Serve runs
Transport ==
  \/ \E c \in Conns : Accept(c)
  \/ \E c \in Conns, k \in {"http", "ws"} : HookActive(c, k)
  \/ \E c \in Conns : HookAdd(c)
  \/ \E c \in Conns : HookIdle(c)
  \/ \E c \in Conns : HookDone(c)
  \/ \E c \in Conns : HookHijacked(c)
  \/ \E c \in Conns : HookClosed(c)

NextStart ==
  \/ \E ok \in BOOLEAN : ConfigStage(ok)
  \/ \E ok \in BOOLEAN : ConfigInitFunc(ok)
  \/ ConfigReturn
  \/ \E ok \in BOOLEAN : StartListen(ok)
  \/ Transport

NoConnection == \A c \in Conns : connState[c] = "none" /\ counted[c] = 0

\* C11: the stages run in the order component manager, root filters, router,
\* init funcs, listen; a stage runs only after every earlier one returned no
\* error; when a stage returns an error it is the last one run, the startup
\* is over (nothing more can run), the listener is not open and no
\* connection is ever accepted or served; and connections are accepted only
\* once every stage has run without error.
C11_StartupOrder ==
  /\ \E n \in InitFuncCounts : IsPrefix(stagesRun, StagesOf(n))
  /\ spc \in {"listen", "serving", "failed"} => initFuncsLeft = 0
  /\ startErr # "none" =>
       /\ spc \in {"aborted", "failed"}
       /\ stagesRun[Len(stagesRun)] = startErr
       /\ startErr = "Listen" <=> spc = "failed"
  /\ spc \in {"aborted", "failed"} =>
       /\ startErr # "none"
       /\ ~listening
       /\ NoConnection
       /\ ~ENABLED NextStart
  /\ ~listening => NoConnection
  /\ listening =>
       /\ startErr = "none" /\ spc = "serving" /\ initFuncsLeft = 0
       /\ \E n \in InitFuncCounts : stagesRun = StagesOf(n)

\* C11 witness: the router's init returned an error after the component
\* manager and the root filters were initialised: no init func ran although
\* one is registered, and nothing listens.
C11_Witness ==
  /\ spc = "aborted" /\ startErr = "Router"
  /\ stagesRun = ConfigStages
  /\ initFuncsLeft > 0
  /\ ~listening


\* ============================================================== dispatch
Reqs == 1..MaxReq
Methods == {"GET", "POST"}
NoRoute == "none"
NoHandler == "none"

RECURSIVE PathsOfLen(_)
PathsOfLen(n) ==
  IF n = 1 THEN {<<"/">>}
  ELSE {Append(p, ch) : p \in PathsOfLen(n - 1), ch \in {"/", "a"}}

\* request paths: they start with a slash
Paths == UNION {PathsOfLen(n) : n \in 1..MaxPathLen}

\* NormalizePath without the length test: the root path is cut to nothing.
NormalizePathAnyLength(p) ==
  IF p[Len(p)] = "/" THEN SubSeq(p, 1, Len(p) - 1) ELSE p

\* ServeHTTP, lines 303-306: one trailing slash is cut from a path longer
\* than one character.
NormalizePath(p) ==
  IF Len(p) > 1 /\ p[Len(p)] = "/" THEN SubSeq(p, 1, Len(p) - 1) ELSE p

\* The registration under test: "/a" has a GET handler and the route filters
\* A, B; "/" has GET and POST handlers and no route filter; C is the only
\* root filter.
RouteTable ==
  [ra |-> [pattern |-> <<"/", "a">>, methods |-> {"GET"},
           filters |-> <<"A", "B">>],
   root |-> [pattern |-> <<"/">>, methods |-> {"GET", "POST"},
             filters |-> <<>>]]
RouteNames == DOMAIN RouteTable
RootFilterList == <<"C">>

\* Router.MatchHandlerFilters: the route whose pattern is the path.
MatchHandlerFilters(path) ==
  IF \E n \in RouteNames : RouteTable[n].pattern = path
    THEN CHOOSE n \in RouteNames : RouteTable[n].pattern = path
    ELSE NoRoute

RouteFilters(route) ==
  IF route = NoRoute THEN <<>> ELSE RouteTable[route].filters

\* handler.Handler(method) / IndicateHandler(method, handler): the route's
\* handler function for the method, or nil.
HandlerFor(route, method) ==
  IF route # NoRoute /\ method \in RouteTable[route].methods
    THEN "H" ELSE NoHandler

\* newFilterChain(filters, handler): the filters in their order around the
\* handler; a nil handler leaves the filters alone.
newFilterChain(filters, inner) == filters \o inner

\* lines 343-348 decided wrongly: a missing method handler reported as a
\* missing route.
ResolveStatusNotFoundOnly(route, method) ==
  IF HandlerFor(route, method) = NoHandler THEN <<"NotFound">> ELSE <<>>

\* serveHTTP, lines 343-348: what the dispatcher itself reports.
ResolveStatus(route, method) ==
  IF route = NoRoute THEN <<"NotFound">>
  ELSE IF HandlerFor(route, method) = NoHandler THEN <<"MethodNotAllowed">>
  ELSE <<>>

HandlerLink(route, method) ==
  IF HandlerFor(route, method) = NoHandler THEN <<>> ELSE <<"H">>

\* lines 350-352 with the two layers swapped.
ServeChainRouteFirst(route, method) ==
  newFilterChain(RouteFilters(route),
                 newFilterChain(RootFilterList, HandlerLink(route, method)))

\* serveHTTP, lines 350-352: the root filters around the route filters
\* around the handler.
ServeChain(route, method) ==
  newFilterChain(RootFilterList,
                 newFilterChain(RouteFilters(route), HandlerLink(route, method)))

\* zerver_rest serveHTTP, lines 83-93: nothing runs without a handler
\* function; the route filters run around it.
RestChain(route, method) ==
  IF HandlerFor(route, method) = NoHandler THEN <<>>
  ELSE newFilterChain(RouteFilters(route), <<"H">>)

DispatchIdle ==
  /\ rpc = [r \in Reqs |-> "idle"]
  /\ rver = [r \in Reqs |-> "none"]
  /\ rroute = [r \in Reqs |-> NoRoute]
  /\ rmethod = [r \in Reqs |-> "none"]
  /\ rchain = [r \in Reqs |-> <<>>]
  /\ rpos = [r \in Reqs |-> 0]
  /\ ran = [r \in Reqs |-> <<>>]
  /\ rexit = [r \in Reqs |-> "none"]
  /\ reported = [r \in Reqs |-> <<>>]
  /\ rheld = [r \in Reqs |-> {}]

\* ServeHTTP, lines 302-313, and serveHTTP, lines 330-341: the path is
\* normalised, the route matched (with its pooled indexer and filter slice)
\* and the request environment taken from its pool.
ServeHTTP(r, p, m) ==
  /\ rpc[r] = "idle"
  /\ IF r = 1 THEN TRUE ELSE rpc[r - 1] # "idle"
  /\ LET route == MatchHandlerFilters(NormalizePath(p)) IN
       /\ rroute' = [rroute EXCEPT ![r] = route]
       /\ rheld' = [rheld EXCEPT ![r] =
            IF route = NoRoute THEN {"reqEnv"}
            ELSE {"reqEnv", "indexer", "filters"}]
  /\ rver' = [rver EXCEPT ![r] = "zerver"]
  /\ rmethod' = [rmethod EXCEPT ![r] = m]
  /\ rpc' = [rpc EXCEPT ![r] = "resolve"]
  /\ UNCHANGED <<rchain, rpos, ran, rexit, reported>>
  /\ UNCHANGED outsideDispatch

\* serveHTTP, lines 343-352: the status is reported when there is no handler
\* function, and the chain is composed and called.
Resolve(r) ==
  /\ rpc[r] = "resolve"
  /\ reported' = [reported EXCEPT ![r] = ResolveStatus(rroute[r], rmethod[r])]
  /\ rchain' = [rchain EXCEPT ![r] = ServeChain(rroute[r], rmethod[r])]
  /\ rpos' = [rpos EXCEPT ![r] = 1]
  /\ rpc' = [rpc EXCEPT ![r] = "chain"]
  /\ UNCHANGED <<rver, rroute, rmethod, ran, rexit, rheld>>
  /\ UNCHANGED outsideDispatch

AtLink(r) == rpc[r] = "chain" /\ rpos[r] <= Len(rchain[r])
Link(r) == rchain[r][rpos[r]]

\* A filter is entered and calls the next link.
FilterProceed(r) ==
  /\ AtLink(r) /\ Link(r) # "H"
  /\ ran' = [ran EXCEPT ![r] = Append(@, Link(r))]
  /\ rpos' = [rpos EXCEPT ![r] = @ + 1]
  /\ UNCHANGED <<rpc, rver, rroute, rmethod, rchain, rexit, reported, rheld>>
  /\ UNCHANGED outsideDispatch

\* A filter is entered and returns without calling the next link.
FilterShortCircuit(r) ==
  /\ AtLink(r) /\ Link(r) # "H"
  /\ ran' = [ran EXCEPT ![r] = Append(@, Link(r))]
  /\ rexit' = [rexit EXCEPT ![r] = "short"]
  /\ rpc' = [rpc EXCEPT ![r] = "finish"]
  /\ UNCHANGED <<rver, rroute, rmethod, rchain, rpos, reported, rheld>>
  /\ UNCHANGED outsideDispatch

\* The handler function is entered and returns.
HandlerReturn(r) ==
  /\ AtLink(r) /\ Link(r) = "H"
  /\ ran' = [ran EXCEPT ![r] = Append(@, "H")]
  /\ rexit' = [rexit EXCEPT ![r] = "handler"]
  /\ rpc' = [rpc EXCEPT ![r] = "finish"]
  /\ UNCHANGED <<rver, rroute, rmethod, rchain, rpos, reported, rheld>>
  /\ UNCHANGED outsideDispatch

\* Every filter called its next link and the chain has no handler function.
ChainEnd(r) ==
  /\ rpc[r] = "chain" /\ rpos[r] > Len(rchain[r])
  /\ rexit' = [rexit EXCEPT ![r] = "end"]
  /\ rpc' = [rpc EXCEPT ![r] = "finish"]
  /\ UNCHANGED <<rver, rroute, rmethod, rchain, rpos, ran, reported, rheld>>
  /\ UNCHANGED outsideDispatch

\* A filter or the handler function panics.  serveHTTP (lines 330-359) has
\* no deferred call and no recover: the panic leaves serveHTTP and ServeHTTP
\* at line 352, and lines 354-358 are not executed.
LinkPanic(r) ==
  /\ AtLink(r)
  /\ ran' = [ran EXCEPT ![r] = Append(@, Link(r))]
  /\ rexit' = [rexit EXCEPT ![r] = "panic"]
  /\ rpc' = [rpc EXCEPT ![r] = "panicked"]
  /\ UNCHANGED <<rver, rroute, rmethod, rchain, rpos, reported, rheld>>
  /\ UNCHANGED outsideDispatch

\* serveHTTP, lines 354-358: request and response are destroyed (the indexer
\* with the request), the environment and the filter slice are recycled.
Finish(r) ==
  /\ rpc[r] = "finish"
  /\ rheld' = [rheld EXCEPT ![r] = {}]
  /\ rpc' = [rpc EXCEPT ![r] = "done"]
  /\ UNCHANGED <<rver, rroute, rmethod, rchain, rpos, ran, rexit, reported>>
  /\ UNCHANGED outsideDispatch

\* zerver_rest ServeHTTP and serveHTTP, lines 59-65 and 78-94, as one step:
\* no normalisation, no root filter, no pool.  The chain runs up to its k-th
\* link, where it ends as the link decides.
RestServeHTTP(r, p, m) ==
  /\ rpc[r] = "idle"
  /\ IF r = 1 THEN TRUE ELSE rpc[r - 1] # "idle"
  /\ LET route == MatchHandlerFilters(p)
         chain == RestChain(route, m)
         status == IF route = NoRoute THEN <<"NotFound">>
                   ELSE IF HandlerFor(route, m) = NoHandler
                          THEN <<"MethodNotAllowed">> ELSE <<>>
         ends == IF chain = <<>> THEN {<<0, "none">>}
                 ELSE {<<k, "panic">> : k \in 1..Len(chain)}
                      \cup {<<k, "short">> : k \in 1..(Len(chain) - 1)}
                      \cup {<<Len(chain), "handler">>}
     IN \E e \in ends :
          /\ rroute' = [rroute EXCEPT ![r] = route]
          /\ rchain' = [rchain EXCEPT ![r] = chain]
          /\ reported' = [reported EXCEPT ![r] = status]
          /\ ran' = [ran EXCEPT ![r] = SubSeq(chain, 1, e[1])]
          /\ rpos' = [rpos EXCEPT ![r] = e[1]]
          /\ rexit' = [rexit EXCEPT ![r] = e[2]]
          /\ rpc' = [rpc EXCEPT ![r] =
                       IF e[2] = "panic" THEN "panicked" ELSE "done"]
  /\ rver' = [rver EXCEPT ![r] = "rest"]
  /\ rmethod' = [rmethod EXCEPT ![r] = m]
  /\ UNCHANGED rheld
  /\ UNCHANGED outsideDispatch

\* The websocket registration under test: one handler, at "/a".
WsRoutes == {<<"/", "a">>}

\* Router.MatchWebSocketHandler: the handler registered for the path, with
\* its pooled indexer, or nil.
MatchWebSocketHandler(path) == IF path \in WsRoutes THEN "wsa" ELSE NoRoute

\* ServeHTTP, lines 302-313, and serveWebSocket, lines 317-319: the path is
\* normalised and the websocket handler matched; without one NotFound is
\* written and nothing is checked out.
ServeWebSocket(r, p) ==
  /\ rpc[r] = "idle"
  /\ IF r = 1 THEN TRUE ELSE rpc[r - 1] # "idle"
  /\ LET handler == MatchWebSocketHandler(NormalizePath(p)) IN
       /\ rroute' = [rroute EXCEPT ![r] = handler]
       /\ IF handler = NoRoute
            THEN /\ reported' = [reported EXCEPT ![r] = <<"NotFound">>]
                 /\ rpc' = [rpc EXCEPT ![r] = "done"]
                 /\ UNCHANGED rheld
            ELSE /\ rheld' = [rheld EXCEPT ![r] = {"indexer"}]
                 /\ rpc' = [rpc EXCEPT ![r] = "upgrade"]
                 /\ UNCHANGED reported
  /\ rver' = [rver EXCEPT ![r] = "ws"]
  /\ rmethod' = [rmethod EXCEPT ![r] = "GET"]
  /\ UNCHANGED <<rchain, rpos, ran, rexit>>
  /\ UNCHANGED outsideDispatch

\* serveWebSocket, lines 321-325: websocket.UpgradeWebsocket.  When it
\* returns an error serveWebSocket returns, with the indexer as it is.
WsUpgrade(r, ok) ==
  /\ rpc[r] = "upgrade"
  /\ IF ok THEN /\ rpc' = [rpc EXCEPT ![r] = "wshandle"]
                /\ UNCHANGED rexit
           ELSE /\ rpc' = [rpc EXCEPT ![r] = "done"]
                /\ rexit' = [rexit EXCEPT ![r] = "upgradefail"]
  /\ UNCHANGED <<rver, rroute, rmethod, rchain, rpos, ran, reported, rheld>>
  /\ UNCHANGED outsideDispatch

\* serveWebSocket, lines 323-324: handler.Handle returns and the indexer is
\* destroyed.
WsHandle(r) ==
  /\ rpc[r] = "wshandle"
  /\ ran' = [ran EXCEPT ![r] = Append(@, "W")]
  /\ rexit' = [rexit EXCEPT ![r] = "handler"]
  /\ rheld' = [rheld EXCEPT ![r] = {}]
  /\ rpc' = [rpc EXCEPT ![r] = "done"]
  /\ UNCHANGED <<rver, rroute, rmethod, rchain, rpos, reported>>
  /\ UNCHANGED outsideDispatch

\* serveWebSocket, line 323: handler.Handle panics; line 324 is not reached.
WsPanic(r) ==
  /\ rpc[r] = "wshandle"
  /\ ran' = [ran EXCEPT ![r] = Append(@, "W")]
  /\ rexit' = [rexit EXCEPT ![r] = "panic"]
  /\ rpc' = [rpc EXCEPT ![r] = "panicked"]
  /\ UNCHANGED <<rver, rroute, rmethod, rchain, rpos, reported, rheld>>
  /\ UNCHANGED outsideDispatch


\* ================================================ properties of the dispatch
Range(q) == {q[i] : i \in 1..Len(q)}
Resolved(r) == rpc[r] \notin {"idle", "resolve"} /\ rver[r] # "ws"

\* C7: route resolution picks one of three outcomes.  Without a route the
\* dispatcher reports NotFound and no handler function is in the chain; with
\* a route that has no handler function for the method it reports
\* MethodNotAllowed (not NotFound) and no handler function is in the chain;
\* with a handler function it reports nothing and the handler function is
\* the last link of the chain and nowhere else.  GET-only "/a" requested
\* with POST gives MethodNotAllowed.
C7_ThreeOutcomes ==
  \A r \in Reqs :
    Resolved(r) =>
      LET route == rroute[r]
          has == route # NoRoute /\ rmethod[r] \in RouteTable[route].methods
      IN
        /\ route = NoRoute =>
             (reported[r] = <<"NotFound">> /\ "H" \notin Range(rchain[r]))
        /\ (route # NoRoute /\ ~has) =>
             (reported[r] = <<"MethodNotAllowed">>
                /\ "H" \notin Range(rchain[r]))
        /\ has =>
             /\ reported[r] = <<>>
             /\ rchain[r] # <<>>
             /\ \A i \in 1..Len(rchain[r]) :
                  rchain[r][i] = "H" <=> i = Len(rchain[r])
        /\ (route = "ra" /\ rmethod[r] = "POST") =>
             reported[r] = <<"MethodNotAllowed">>
        /\ "H" \in Range(ran[r]) => has

\* C7 witness: POST on the GET-only route was dispatched to its end with
\* MethodNotAllowed.
C7_Witness ==
  \E r \in Reqs :
    /\ rver[r] = "zerver" /\ rpc[r] = "done"
    /\ rroute[r] = "ra" /\ rmethod[r] = "POST"
    /\ reported[r] = <<"MethodNotAllowed">>

\* C8: the links entered for a request are a prefix of root filters, then
\* route filters, then the handler function; the whole of it when no filter
\* short-circuits (C, A, B, H on GET "/a"); and when a filter does not call
\* its next link, or a link panics, it is the last link entered.
C8_ChainOrder ==
  \A r \in Reqs :
    rver[r] = "zerver" =>
      LET route == rroute[r]
          exp == RootFilterList
                   \o (IF route = NoRoute THEN <<>> ELSE RouteTable[route].filters)
                   \o (IF route # NoRoute /\ rmethod[r] \in RouteTable[route].methods
                         THEN <<"H">> ELSE <<>>)
      IN
        /\ IsPrefix(ran[r], exp)
        /\ rexit[r] \in {"handler", "end"} => ran[r] = exp
        /\ rexit[r] \in {"short", "panic"} => Len(ran[r]) = rpos[r]
        /\ rexit[r] = "short" => ran[r][Len(ran[r])] # "H"
        /\ (route = "ra" /\ rmethod[r] = "GET") =>
             /\ rexit[r] = "handler" => ran[r] = <<"C", "A", "B", "H">>
             /\ (rexit[r] = "short" /\ rpos[r] = 2) => ran[r] = <<"C", "A">>

\* C8 witness: one request ran C, A, B, H to the end; in another one A
\* short-circuited after C and the dispatch ended with neither B nor H.
C8_Witness ==
  \E r1, r2 \in Reqs :
    /\ rver[r1] = "zerver" /\ rpc[r1] = "done"
    /\ ran[r1] = <<"C", "A", "B", "H">>
    /\ rver[r2] = "zerver" /\ rpc[r2] = "done"
    /\ rexit[r2] = "short" /\ ran[r2] = <<"C", "A">>

\* C10 (as claimed): a panic of a filter or handler function is caught inside
\* the request's dispatch: it does not leave serveHTTP, a server error is
\* reported, and the request's pooled objects are returned.
C10_PanicCaught ==
  \A r \in Reqs :
    (rver[r] = "zerver" /\ rexit[r] = "panic") =>
      /\ rpc[r] # "panicked"
      /\ "ServerError" \in Range(reported[r])
      /\ rheld[r] = {}


\* no handler function was found for the request
NoHandlerFound(r) ==
  rroute[r] = NoRoute \/ rmethod[r] \notin RouteTable[rroute[r]].methods

C16_PooledObjectsReturned ==
  \A r \in Reqs :
    /\ rpc[r] = "done" => rheld[r] = {}
    /\ rpc[r] \in {"resolve", "chain", "finish"} => "reqEnv" \in rheld[r]
    /\ rpc[r] \in {"upgrade", "wshandle"} => "indexer" \in rheld[r]


NextDispatch ==
  \/ \E r \in Reqs, p \in Paths, m \in Methods : ServeHTTP(r, p, m)
  \/ \E r \in Reqs : Resolve(r)
  \/ \E r \in Reqs : FilterProceed(r)
  \/ \E r \in Reqs : FilterShortCircuit(r)
  \/ \E r \in Reqs : HandlerReturn(r)
  \/ \E r \in Reqs : ChainEnd(r)
  \/ \E r \in Reqs : LinkPanic(r)
  \/ \E r \in Reqs : Finish(r)
  \/ \E r \in Reqs, p \in Paths, m \in Methods : RestServeHTTP(r, p, m)
  \/ \E r \in Reqs, p \in Paths : ServeWebSocket(r, p)
  \/ \E r \in Reqs, ok \in BOOLEAN : WsUpgrade(r, ok)
  \/ \E r \in Reqs : WsHandle(r)
  \/ \E r \in Reqs : WsPanic(r)

\* ==================================================== path normalisation
UrlPaths == UNION {PathsOfLen(n) : n \in 1..MaxUrlLen}

\* A request has arrived with path p; ws tells a websocket request.
PathReceived(p, ws) ==
  /\ praw = p
  /\ ppath = p
  /\ pws = ws
  /\ ppc = "received"
  /\ pmatch = <<>>

\* ServeHTTP, lines 303-306.
PathNormalize ==
  /\ ppc = "received"
  /\ ppath' = NormalizePath(ppath)
  /\ ppc' = "normalized"
  /\ UNCHANGED <<praw, pws, pmatch>>
  /\ UNCHANGED outsidePath

\* ServeHTTP, lines 308-312, and the match of line 317 or line 333:
\* request.URL goes to MatchWebSocketHandler or to MatchHandlerFilters.
PathServe ==
  /\ ppc = "normalized"
  /\ ppc' = IF pws THEN "ws" ELSE "http"
  /\ pmatch' = ppath
  /\ UNCHANGED <<praw, ppath, pws>>
  /\ UNCHANGED outsidePath

NextPath ==
  \/ PathNormalize
  \/ PathServe

EndsWithSlash(p) == p[Len(p)] = "/"

\* C12: the path matched is the request's path without its last character
\* when that path is longer than one character and ends in a slash, and the
\* request's path itself otherwise: "/a/" is matched as "/a", "/" as "/", a
\* path that does not end in a slash as itself, and "/a//" as "/a/" (one
\* slash is cut, not two); websocket and plain requests alike.
C12_OneTrailingSlash ==
  ppc # "received" =>
    /\ (Len(praw) > 1 /\ EndsWithSlash(praw)) =>
         /\ Len(ppath) = Len(praw) - 1
         /\ IsPrefix(ppath, praw)
    /\ ~(Len(praw) > 1 /\ EndsWithSlash(praw)) => ppath = praw
    /\ praw = <<"/", "a", "/">> => ppath = <<"/", "a">>
    /\ praw = <<"/">> => ppath = <<"/">>
    /\ praw = <<"/", "a">> => ppath = <<"/", "a">>
    /\ praw = <<"/", "a", "/", "/">> => ppath = <<"/", "a", "/">>
    /\ ppc \in {"http", "ws"} =>
         /\ pmatch = ppath
         /\ ppc = "ws" <=> pws

\* C12 witness: a websocket request for "/a//" was matched as "/a/".
C12_Witness ==
  /\ praw = <<"/", "a", "/", "/">>
  /\ ppc = "ws"
  /\ pmatch = <<"/", "a", "/">>


\* ============================================================ components
Comps == 1..MaxComps
\* a name no component is registered under
Unregistered == MaxComps + 1
CompNames == Comps \cup {Unregistered}
\* the call depth past which a run is cut off
StackLimit == MaxComps + 2

\* lines 23-24 of the test: Comp1 is Dep("Comp2"), Comp2 is Dep("Comp1");
\* further components resolve the first one.
TestDeps == [c \in Comps |-> IF c = 1 THEN 2 ELSE 1]

CompRegistered(d) ==
  /\ deps = d
  /\ compState = [c \in Comps |-> "Registered"]
  /\ initCount = [c \in Comps |-> 0]
  /\ compStack = <<>>
  /\ compErrors = {}
  /\ loopTodo = Comps

\* Resolve without the Initializing state: a component whose init routine is
\* in progress is initialised again.
ResolveOutcomeNoGuard(n) ==
  IF n \notin Comps THEN "ComponentNotFound"
  ELSE IF compState[n] = "Initialized" THEN "Instance"
  ELSE "Init"

\* env.Component(name): an unregistered name is not found, a component in the
\* Initializing state is a dependency cycle, an initialised one is returned,
\* a registered one is initialised first.
ResolveOutcome(n) ==
  IF n \notin Comps THEN "ComponentNotFound"
  ELSE IF compState[n] = "Initializing" THEN "CyclicDependency"
  ELSE IF compState[n] = "Initialized" THEN "Instance"
  ELSE "Init"

\* The component is marked Initializing and its init routine entered.
EnterInit(c, stack) ==
  /\ Len(stack) < StackLimit
  /\ compState' = [compState EXCEPT ![c] = "Initializing"]
  /\ initCount' = [initCount EXCEPT ![c] = @ + 1]
  /\ compStack' = Append(stack, [comp |-> c, phase |-> "resolve"])

\* lines 25-27 of the test: the loop calls comp.Init(s) on the next
\* component, in the map's order; one that a dependent has initialised
\* already is not initialised again.
LoopInit(c) ==
  /\ compStack = <<>>
  /\ c \in loopTodo
  /\ loopTodo' = loopTodo \ {c}
  /\ IF compState[c] = "Registered"
       THEN EnterInit(c, compStack)
       ELSE UNCHANGED <<compState, initCount, compStack>>
  /\ UNCHANGED <<deps, compErrors>>
  /\ UNCHANGED outsideComp

Top == compStack[Len(compStack)]
Returning == [compStack EXCEPT ![Len(compStack)].phase = "return"]

\* Dep.Init, line 12: env.Component(string(d)), its error dropped.
DepInitResolve ==
  /\ compStack # <<>>
  /\ Top.phase = "resolve"
  /\ LET n == deps[Top.comp]
         out == ResolveOutcome(n)
     IN IF out = "Init"
          THEN /\ EnterInit(n, Returning)
               /\ UNCHANGED compErrors
          ELSE /\ compStack' = Returning
               /\ compErrors' =
                    IF out = "Instance" THEN compErrors
                    ELSE compErrors \cup
                           {[kind |-> out, name |-> n, by |-> Top.comp]}
               /\ UNCHANGED <<compState, initCount>>
  /\ UNCHANGED <<deps, loopTodo>>
  /\ UNCHANGED outsideComp

\* Dep.Init, line 13: return nil; the component is Initialized.
DepInitReturn ==
  /\ compStack # <<>>
  /\ Top.phase = "return"
  /\ compState' = [compState EXCEPT ![Top.comp] = "Initialized"]
  /\ compStack' = SubSeq(compStack, 1, Len(compStack) - 1)
  /\ UNCHANGED <<deps, initCount, compErrors, loopTodo>>
  /\ UNCHANGED outsideComp

CompDone == loopTodo = {} /\ compStack = <<>>

RECURSIVE DepAfter(_, _)
\* the name reached from n by following k dependencies
DepAfter(n, k) ==
  IF k = 0 \/ n \notin Comps THEN n ELSE DepAfter(deps[n], k - 1)

InCycle(n) == n \in Comps /\ \E k \in 1..MaxComps : DepAfter(n, k) = n

C9Inv ==
  /\ \A c \in Comps : initCount[c] <= 1
  /\ Len(compStack) <= MaxComps
  /\ \A i, j \in 1..Len(compStack) :
       compStack[i].comp = compStack[j].comp => i = j
  /\ \A e \in compErrors :
       /\ e.name = deps[e.by]
       /\ e.kind = "CyclicDependency" => (InCycle(e.name) /\ InCycle(e.by))
       /\ e.kind = "ComponentNotFound" => e.name \notin Comps
  /\ CompDone =>
       /\ \A c \in Comps : compState[c] = "Initialized" /\ initCount[c] = 1
       /\ \A c \in Comps :
            InCycle(c) =>
              \E e \in compErrors, k \in 1..MaxComps :
                e.kind = "CyclicDependency" /\ DepAfter(c, k) = e.name

\* C9: initialising every registered component terminates, whatever each
\* component's Init resolves (Comp1 and Comp2 resolving each other
\* included): no init routine is entered twice, the init routines in
\* progress are distinct components (so never more than there are
\* components), resolving a component that is Initializing returns a
\* CyclicDependency error naming it, and the loop comes to its end with
\* every component Initialized and every cycle reported.
C9_CycleTerminates == []C9Inv /\ <>CompDone

\* C9 witness: the test's registration (Comp1 and Comp2 resolving each other)
\* has run to its end, with the cycle reported and both init routines
\* entered once.
C9_Witness ==
  /\ deps[1] = 2 /\ deps[2] = 1
  /\ CompDone
  /\ \E e \in compErrors :
       e.kind = "CyclicDependency" /\ e.name \in {1, 2}
  /\ initCount[1] = 1 /\ initCount[2] = 1

NextComp ==
  \/ \E c \in Comps : LoopInit(c)
  \/ DepInitResolve
  \/ DepInitReturn

\* no request is on its way through ServeHTTP's normalisation
PathIdle == PathReceived(<<"/">>, FALSE)

Init ==
  /\ InitLife
  /\ DispatchIdle
  /\ CompRegistered(TestDeps)
  /\ StartServing
  /\ PathIdle

Spec == Init /\ [][NextLife]_vars

SpecDispatch == Init /\ [][NextDispatch]_vars

\* The test's loop runs in one goroutine that is never suspended for good.
InitComp ==
  /\ InitLife
  /\ DispatchIdle
  /\ \E d \in [Comps -> CompNames] : CompRegistered(d)
  /\ StartServing
  /\ PathIdle

SpecComp == InitComp /\ [][NextComp]_vars /\ WF_vars(NextComp)

InitStart ==
  /\ InitLife
  /\ DispatchIdle
  /\ CompRegistered(TestDeps)
  /\ \E n \in InitFuncCounts : StartCalled(n)
  /\ PathIdle

SpecStart == InitStart /\ [][NextStart]_vars

InitPath ==
  /\ InitLife
  /\ DispatchIdle
  /\ CompRegistered(TestDeps)
  /\ StartServing
  /\ \E p \in UrlPaths, ws \in BOOLEAN : PathReceived(p, ws)

SpecPath == InitPath /\ [][NextPath]_vars

=============================================================================
